---------------------------- MODULE Spec2Model ----------------------------
(***************************************************************************)
(* Fire TV integration (uc-intg-firetv): the PIN pairing setup flow        *)
(* (intg_firetv/setup_flow.py), the device command translator              *)
(* (intg_firetv/device.py) and the remote entity's command handler         *)
(* (intg_firetv/remote.py).                                                *)
(*                                                                         *)
(* Python strings are modelled as sequences of one-character strings, so   *)
(* that strip(), int(), lower(), replace() and the f-string formatting are *)
(* computed and not assumed.  An Optional value is <<>> (None) or <<v>>.   *)
(***************************************************************************)
EXTENDS Integers, Sequences, FiniteSets, TLC

(***************************************************************************)
(* Strings                                                                 *)
(***************************************************************************)
Digits == <<"0", "1", "2", "3", "4", "5", "6", "7", "8", "9">>

IsSpace(c) == c \in {" ", "\t", "\n"}

IsDigit(c) == \E i \in 1..10 : Digits[i] = c

DigitVal(c) == (CHOOSE i \in 1..10 : Digits[i] = c) - 1

RECURSIVE LStrip(_)
LStrip(s) == IF s # <<>> /\ IsSpace(Head(s)) THEN LStrip(Tail(s)) ELSE s

RECURSIVE RStrip(_)
RStrip(s) ==
    IF s # <<>> /\ IsSpace(s[Len(s)]) THEN RStrip(SubSeq(s, 1, Len(s) - 1)) ELSE s

\* str.strip()
Strip(s) == RStrip(LStrip(s))

RECURSIVE DigitsToNat(_, _)
DigitsToNat(s, acc) ==
    IF s = <<>> THEN acc ELSE DigitsToNat(Tail(s), 10 * acc + DigitVal(Head(s)))

\* int(str): surrounding whitespace is ignored, one optional sign, then only
\* decimal digits; anything else raises ValueError (ok = FALSE).
ParseInt(s) ==
    LET b == Strip(s)
        neg == b # <<>> /\ Head(b) = "-"
        d == IF b # <<>> /\ Head(b) \in {"-", "+"} THEN Tail(b) ELSE b
    IN  IF d # <<>> /\ \A i \in 1..Len(d) : IsDigit(d[i])
        THEN [ok |-> TRUE, val |-> IF neg THEN 0 - DigitsToNat(d, 0) ELSE DigitsToNat(d, 0)]
        ELSE [ok |-> FALSE, val |-> 0]

RECURSIVE NatToStr(_)
NatToStr(n) ==
    IF n < 10 THEN <<Digits[n + 1]>> ELSE NatToStr(n \div 10) \o <<Digits[(n % 10) + 1]>>

\* f"{port}" for an int
IntToStr(n) == IF n < 0 THEN <<"-">> \o NatToStr(0 - n) ELSE NatToStr(n)

\* str.replace(old, new) for a one-character old
RECURSIVE ReplaceChar(_, _, _)
ReplaceChar(s, old, new) ==
    IF s = <<>> THEN <<>>
    ELSE <<(IF Head(s) = old THEN new ELSE Head(s))>> \o ReplaceChar(Tail(s), old, new)

UpperLetters == <<"A", "B", "C", "D", "E", "F", "G", "H", "I", "J", "K", "L", "M",
                  "N", "O", "P", "Q", "R", "S", "T", "U", "V", "W", "X", "Y", "Z">>

LowerLetters == <<"a", "b", "c", "d", "e", "f", "g", "h", "i", "j", "k", "l", "m",
                  "n", "o", "p", "q", "r", "s", "t", "u", "v", "w", "x", "y", "z">>

LowerChar(c) ==
    IF \E i \in 1..26 : UpperLetters[i] = c
    THEN LowerLetters[CHOOSE i \in 1..26 : UpperLetters[i] = c] ELSE c

UpperChar(c) ==
    IF \E i \in 1..26 : LowerLetters[i] = c
    THEN UpperLetters[CHOOSE i \in 1..26 : LowerLetters[i] = c] ELSE c

\* str.lower(), str.upper()
Lower(s) == [i \in 1..Len(s) |-> LowerChar(s[i])]

Upper(s) == [i \in 1..Len(s) |-> UpperChar(s[i])]

\* str.startswith(prefix)
StartsWith(s, prefix) == Len(prefix) <= Len(s) /\ SubSeq(s, 1, Len(prefix)) = prefix

\* str.replace(old, new) for a non-empty old: every occurrence, left to right
RECURSIVE Replace(_, _, _)
Replace(s, old, new) ==
    IF s = <<>> THEN <<>>
    ELSE IF StartsWith(s, old)
         THEN new \o Replace(SubSeq(s, Len(old) + 1, Len(s)), old, new)
         ELSE <<Head(s)>> \o Replace(Tail(s), old, new)

\* s.split(sep, 1)[1]: what follows the first sep (s holds one)
RECURSIVE AfterFirst(_, _)
AfterFirst(s, sep) ==
    IF s = <<>> THEN <<>> ELSE IF Head(s) = sep THEN Tail(s) ELSE AfterFirst(Tail(s), sep)

\* s.split(sep)
RECURSIVE Split(_, _)
Split(s, sep) ==
    IF \A i \in 1..Len(s) : s[i] # sep THEN <<s>>
    ELSE LET k == CHOOSE i \in 1..Len(s) : s[i] = sep /\ \A j \in 1..(i - 1) : s[j] # sep
         IN  <<SubSeq(s, 1, k - 1)>> \o Split(SubSeq(s, k + 1, Len(s)), sep)

IsAlnumUnderscore(c) == IsDigit(c) \/ c = "_" \/ LowerChar(c) # c \/ UpperChar(c) # c

(***************************************************************************)
(* Setup flow: inputs                                                      *)
(***************************************************************************)
DefaultPort == 8080

Keys == {"name", "host", "port", "pin"}

HostInputs == { <<" ">>, <<"a", ".", "b">>, <<" ", "c", ".", "d", ".", "e", " ">> }

PortInputs == { <<"8", "0">>, <<"x">> }

PinInputs == { <<>>, <<" ">>, <<" ", "1", "2", "3", "4">> }

NameInputs == { <<"T", "V", " ">> }

ValuesOf(k) ==
    CASE k = "host" -> HostInputs
      [] k = "port" -> PortInputs
      [] k = "pin"  -> PinInputs
      [] k = "name" -> NameInputs

\* every input_values dict over the four form fields
InputValues ==
    UNION { { f \in [ks -> UNION {ValuesOf(k) : k \in Keys}] :
                \A k \in ks : f[k] \in ValuesOf(k) } : ks \in SUBSET Keys }

\* dict.get(key, default)
Get(iv, k, default) == IF k \in DOMAIN iv THEN iv[k] ELSE default

(***************************************************************************)
(* FireTVClient (intg_firetv/client.py): what each call can answer.  The   *)
(* answer is the device's and the network's choice.                        *)
(***************************************************************************)
\* wake_up is best effort: its failure, a network error included, is answered
\* as false and not raised
WakeUpOutcomes == {"true", "false"}

TestConnectionOutcomes == {"true", "false", "raise"}

RequestPinOutcomes == {"true", "false", "raise"}

Tokens == { <<"k", "1">>, <<"k", "2">> }

\* verify_pin: a token, None (<<>>), the empty string, or an exception
VerifyPinOutcomes == {[raise |-> FALSE, token |-> <<tk>>] : tk \in Tokens \cup {<<>>}}
                     \cup {[raise |-> FALSE, token |-> <<>>], [raise |-> TRUE, token |-> <<>>]}

(***************************************************************************)
(* Setup flow: state                                                       *)
(***************************************************************************)
Tasks == {1, 2}

\* the callers of query_device that never overlap
SeqTasks == {1}

VARIABLES
    temp_host,   \* FireTVSetupFlow._temp_host: <<>> (None) or <<host>>
    temp_port,   \* FireTVSetupFlow._temp_port
    task,        \* per query_device call in progress: its position and locals
    client,      \* per call: the temporary FireTVClient it created
    netlog,      \* per call: the client's network calls, in order, with answers
    result,      \* per call: what query_device returned or raised
    entry,       \* per call: its input_values and the context it found
    entered_name, \* the 'name' field given to the step 1 that stored the context
    granted,     \* (host, port) pairs whose request_pin succeeded, no verify_pin since
    failedSince  \* a verify_pin failed and no later step 1 has returned the PIN form

flowVars == <<temp_host, temp_port, task, client, netlog, result, entry, entered_name,
              granted, failedSince>>

NoTask == [pc |-> "idle", host |-> <<>>, port |-> 0, pin |-> <<>>, name |-> <<>>,
           pin_requested |-> FALSE, token |-> <<>>, err |-> ""]

NoClient == [created |-> FALSE, host |-> <<>>, port |-> 0, closes |-> 0]

NoResult == [kind |-> "none", msg |-> "", identifier |-> <<>>, name |-> <<>>,
             host |-> <<>>, port |-> 0, token |-> <<>>]

NoEntry == [called |-> FALSE, iv |-> <<>>, host |-> <<>>, port |-> DefaultPort]

\* raise ValueError(msg)
Raised(msg) == [NoResult EXCEPT !.kind = "error", !.msg = msg]

\* RequestUserInput({"en": "Enter PIN from Fire TV"}, [pin field])
PinForm == [NoResult EXCEPT !.kind = "form"]

FlowInit ==
    /\ temp_host = <<>>
    /\ temp_port = DefaultPort
    /\ task = [t \in Tasks |-> NoTask]
    /\ client = [t \in Tasks |-> NoClient]
    /\ netlog = [t \in Tasks |-> <<>>]
    /\ result = [t \in Tasks |-> NoResult]
    /\ entry = [t \in Tasks |-> NoEntry]
    /\ entered_name = <<>>
    /\ granted = {}
    /\ failedSince = FALSE

(***************************************************************************)
(* Device and remote entity: state                                         *)
(***************************************************************************)
VARIABLES
    dev_client,  \* FireTVDevice._client: <<>> (None) or <<client>>
    dev_events,  \* the events the last device operation emitted
    dev_raised,  \* the exception the last device operation raised, "" for none
    dev_op,      \* the last device operation, "" for none yet
    dev_check,   \* what check_client_connected returned, when it was the last operation
    dev_disc,    \* disconnect_client calls in a row (health checks aside), at most 2
    dev_orphans, \* open sessions of clients the device no longer holds
    dev_reachable, \* the Fire TV answers network calls
    dev_calls,   \* the client calls of the last lifecycle operation, with their answers
    dev_phase,   \* "new", "created" since the last create_client, or "disconnected"
    rem_state,   \* FireTVRemote.attributes[Attributes.STATE]
    rem_last     \* the last _handle_command: its request, its status, what it sent

devVars == <<dev_client, dev_events, dev_raised, dev_op, dev_check, dev_disc, dev_orphans,
             dev_reachable, dev_calls, dev_phase, rem_state, rem_last>>

NoCommand == [called |-> FALSE, cmd_id |-> "", params |-> <<>>, status |-> "",
              sent |-> "", calls |-> <<>>, ret |-> <<>>, raised |-> "", before |-> "ON"]

DevInit ==
    /\ dev_client = <<>>
    /\ dev_events = <<>>
    /\ dev_raised = ""
    /\ dev_op = ""
    /\ dev_check = <<>>
    /\ dev_disc = 0
    /\ dev_orphans = 0
    /\ dev_reachable = TRUE
    /\ dev_calls = <<>>
    /\ dev_phase = "new"
    /\ rem_state = "ON"
    /\ rem_last = NoCommand

(***************************************************************************)
(* Setup flow: helpers                                                     *)
(***************************************************************************)
\* Python truthiness of _temp_host (None and "" are falsy)
Truthy(opt) == opt # <<>> /\ opt[1] # <<>>

\* faulty variant: the failure path leaves the stored host and port in place
KeepContext(ctx) == ctx

\* faulty variant: only the host is reset
ResetHostOnly(ctx) == [host |-> <<>>, port |-> ctx.port]

\* self._temp_host = None; self._temp_port = 8080
ResetContext(ctx) == [host |-> <<>>, port |-> DefaultPort]

\* the pairing context as one value
Context == [host |-> temp_host, port |-> temp_port]

\* FireTVClient(host, port)
NewClient(host, port) == [created |-> TRUE, host |-> host, port |-> port, closes |-> 0]

\* faulty variant: the client is never closed
CloseForgotten(c) == c

\* await client.close()
Close(c) == [c EXCEPT !.closes = @ + 1]

\* f"Fire TV ({host})"
DefaultName(host) == <<"F", "i", "r", "e", " ", "T", "V", " ", "(">> \o host \o <<")">>

\* faulty variant: only the first '.' of the host is replaced
RECURSIVE ReplaceFirstChar(_, _, _)
ReplaceFirstChar(s, old, new) ==
    IF s = <<>> THEN <<>>
    ELSE IF Head(s) = old THEN <<new>> \o Tail(s)
    ELSE <<Head(s)>> \o ReplaceFirstChar(Tail(s), old, new)

IdentifierFirstDot(host, port) ==
    <<"f", "i", "r", "e", "t", "v", "_">> \o ReplaceFirstChar(host, ".", "_")
        \o <<"_">> \o IntToStr(port)

\* f"firetv_{host.replace('.', '_')}_{port}"
Identifier(host, port) ==
    <<"f", "i", "r", "e", "t", "v", "_">> \o ReplaceChar(host, ".", "_")
        \o <<"_">> \o IntToStr(port)

\* FireTVConfig(identifier=..., name=name, host=host, port=port, token=token)
Config(name, host, port, token) ==
    [NoResult EXCEPT !.kind = "config", !.identifier = Identifier(host, port),
                     !.name = name, !.host = host, !.port = port, !.token = token]

\* query_device: "pin" in input_values and self._temp_host
IsPinStep(iv, th) == "pin" \in DOMAIN iv /\ Truthy(th)

\* one network call of the call's client, with the answer it got
Log(t, op, answer, token) ==
    netlog' = [netlog EXCEPT ![t] = Append(@, [op |-> op, answer |-> answer, token |-> token])]

(***************************************************************************)
(* query_device up to its first await.  Step 2 (_verify_pin_step) checks   *)
(* the PIN and creates its client; step 1 (_initial_connection_step)       *)
(* checks host and port, stores them and creates its client.               *)
(***************************************************************************)
VerifyPinEntry(t, iv) ==
    LET pin == Strip(Get(iv, "pin", <<>>)) IN
    /\ UNCHANGED <<temp_host, temp_port, entered_name>>
    /\ IF pin = <<>>
       THEN /\ result' = [result EXCEPT ![t] = Raised("PIN is required")]
            /\ client' = [client EXCEPT ![t] = NoClient]
            /\ task' = [task EXCEPT ![t] = NoTask]
       ELSE IF ~Truthy(temp_host)
       THEN /\ result' = [result EXCEPT ![t] =
                            Raised("Setup flow error: no host stored from previous step")]
            /\ client' = [client EXCEPT ![t] = NoClient]
            /\ task' = [task EXCEPT ![t] = NoTask]
       ELSE LET host == temp_host[1]
                port == temp_port
                name == Strip(Get(iv, "name", DefaultName(host)))
            IN  /\ result' = [result EXCEPT ![t] = NoResult]
                /\ client' = [client EXCEPT ![t] = NewClient(host, port)]
                /\ task' = [task EXCEPT ![t] =
                              [NoTask EXCEPT !.pc = "v_verify", !.host = host,
                                             !.port = port, !.pin = pin, !.name = name]]

\* faulty variant: the host is stored before the port is looked at
InitialConnectionEntryStoringFirst(t, iv) ==
    LET host == Strip(Get(iv, "host", <<>>))
        port == IF "port" \in DOMAIN iv THEN ParseInt(iv["port"])
                                        ELSE [ok |-> TRUE, val |-> DefaultPort]
    IN  IF host = <<>>
        THEN /\ result' = [result EXCEPT ![t] = Raised("IP address is required")]
             /\ client' = [client EXCEPT ![t] = NoClient]
             /\ task' = [task EXCEPT ![t] = NoTask]
             /\ UNCHANGED <<temp_host, temp_port, entered_name>>
        ELSE IF ~port.ok
        THEN /\ temp_host' = <<host>>
             /\ result' = [result EXCEPT ![t] = Raised("Port must be a number")]
             /\ client' = [client EXCEPT ![t] = NoClient]
             /\ task' = [task EXCEPT ![t] = NoTask]
             /\ UNCHANGED <<temp_port, entered_name>>
        ELSE /\ temp_host' = <<host>>
             /\ temp_port' = port.val
             /\ entered_name' = IF "name" \in DOMAIN iv THEN <<iv["name"]>> ELSE <<>>
             /\ result' = [result EXCEPT ![t] = NoResult]
             /\ client' = [client EXCEPT ![t] = NewClient(host, port.val)]
             /\ task' = [task EXCEPT ![t] =
                           [NoTask EXCEPT !.pc = "i_wake", !.host = host, !.port = port.val]]

InitialConnectionEntry(t, iv) ==
    LET host == Strip(Get(iv, "host", <<>>))
        port == IF "port" \in DOMAIN iv THEN ParseInt(iv["port"])
                                        ELSE [ok |-> TRUE, val |-> DefaultPort]
    IN  IF host = <<>>
        THEN /\ result' = [result EXCEPT ![t] = Raised("IP address is required")]
             /\ client' = [client EXCEPT ![t] = NoClient]
             /\ task' = [task EXCEPT ![t] = NoTask]
             /\ UNCHANGED <<temp_host, temp_port, entered_name>>
        ELSE IF ~port.ok
        THEN /\ result' = [result EXCEPT ![t] = Raised("Port must be a number")]
             /\ client' = [client EXCEPT ![t] = NoClient]
             /\ task' = [task EXCEPT ![t] = NoTask]
             /\ UNCHANGED <<temp_host, temp_port, entered_name>>
        ELSE /\ temp_host' = <<host>>
             /\ temp_port' = port.val
             /\ entered_name' = IF "name" \in DOMAIN iv THEN <<iv["name"]>> ELSE <<>>
             /\ result' = [result EXCEPT ![t] = NoResult]
             /\ client' = [client EXCEPT ![t] = NewClient(host, port.val)]
             /\ task' = [task EXCEPT ![t] =
                           [NoTask EXCEPT !.pc = "i_wake", !.host = host, !.port = port.val]]

QueryDevice(t, iv) ==
    /\ task[t].pc = "idle"
    /\ entry' = [entry EXCEPT ![t] =
                   [called |-> TRUE, iv |-> iv, host |-> temp_host, port |-> temp_port]]
    /\ netlog' = [netlog EXCEPT ![t] = <<>>]
    /\ IF IsPinStep(iv, temp_host) THEN VerifyPinEntry(t, iv)
                                   ELSE InitialConnectionEntry(t, iv)
    /\ UNCHANGED <<granted, failedSince, devVars>>

(***************************************************************************)
(* Step 1, _initial_connection_step, one action per await                  *)
(***************************************************************************)
\* faulty variant: step 1 gives up when wake_up does not answer true
AfterWakeUpChecked(o) == IF o = "true" THEN "i_sleep" ELSE "i_except"

\* where step 1 goes after wake_up answered: its return value is not used
AfterWakeUp(o) == IF o = "raise" THEN "i_except" ELSE "i_sleep"

\* await client.wake_up()
WakeUp(t) ==
    /\ task[t].pc = "i_wake"
    /\ \E o \in WakeUpOutcomes :
        /\ Log(t, "wake_up", o, <<>>)
        /\ task' = [task EXCEPT ![t] =
                      [@ EXCEPT !.pc = AfterWakeUp(o),
                                !.err = IF AfterWakeUp(o) = "i_except" THEN "wake_up failed" ELSE @]]
    /\ UNCHANGED <<temp_host, temp_port, client, result, entry, entered_name, granted, failedSince, devVars>>

\* await asyncio.sleep(3)
Settle(t) ==
    /\ task[t].pc = "i_sleep"
    /\ task' = [task EXCEPT ![t].pc = "i_test"]
    /\ UNCHANGED <<temp_host, temp_port, client, netlog, result, entry, entered_name, granted, failedSince, devVars>>

\* faulty variant: the answer of test_connection is not checked
AfterTestConnectionUnchecked(o) == IF o = "raise" THEN "i_except" ELSE "i_request"

\* where step 1 goes after test_connection answered
AfterTestConnection(o) ==
    CASE o = "raise" -> "i_except"
      [] o = "false" -> "i_close_unreachable"
      [] o = "true"  -> "i_request"

\* connected = await client.test_connection(max_retries=3, retry_delay=3.0)
TestConnection(t) ==
    /\ task[t].pc = "i_test"
    /\ \E o \in TestConnectionOutcomes :
        /\ Log(t, "test_connection", o, <<>>)
        /\ task' = [task EXCEPT ![t] =
                      [@ EXCEPT !.pc = AfterTestConnection(o),
                                !.err = IF o = "raise" THEN "test_connection raised" ELSE @]]
    /\ UNCHANGED <<temp_host, temp_port, client, result, entry, entered_name, granted, failedSince, devVars>>

\* if not connected: await client.close(); raise ValueError("Cannot reach ...")
CloseUnreachable(t) ==
    /\ task[t].pc = "i_close_unreachable"
    /\ client' = [client EXCEPT ![t] = Close(@)]
    /\ task' = [task EXCEPT ![t] = [@ EXCEPT !.pc = "i_except", !.err = "Cannot reach Fire TV"]]
    /\ UNCHANGED <<temp_host, temp_port, netlog, result, entry, entered_name, granted, failedSince, devVars>>

\* faulty variant: the answer of request_pin is not checked
PinRequestedAlways(o) == TRUE

\* the truth value step 1 takes from request_pin's answer (if not pin_requested)
PinRequested(o) == o = "true"

\* pin_requested = await client.request_pin("UC Remote")
RequestPin(t) ==
    /\ task[t].pc = "i_request"
    /\ \E o \in RequestPinOutcomes :
        /\ Log(t, "request_pin", o, <<>>)
        /\ task' = [task EXCEPT ![t] =
                      IF o = "raise"
                      THEN [@ EXCEPT !.pc = "i_except", !.err = "request_pin raised"]
                      ELSE [@ EXCEPT !.pc = "i_close_requested", !.pin_requested = PinRequested(o)]]
        /\ granted' = IF o = "true" THEN granted \cup {<<task[t].host, task[t].port>>}
                                    ELSE granted
    /\ UNCHANGED <<temp_host, temp_port, client, result, entry, entered_name, failedSince, devVars>>

\* await client.close(); if not pin_requested: raise ...; return the PIN form
CloseRequested(t) ==
    /\ task[t].pc = "i_close_requested"
    /\ client' = [client EXCEPT ![t] = Close(@)]
    /\ IF ~task[t].pin_requested
       THEN /\ task' = [task EXCEPT ![t] =
                          [@ EXCEPT !.pc = "i_except", !.err = "Failed to request PIN display"]]
            /\ UNCHANGED <<result, failedSince>>
       ELSE /\ task' = [task EXCEPT ![t] = NoTask]
            /\ result' = [result EXCEPT ![t] = PinForm]
            /\ failedSince' = FALSE
    /\ UNCHANGED <<temp_host, temp_port, netlog, entry, entered_name, granted, devVars>>

\* except Exception: await client.close(); reset the context; raise ValueError
InitialExcept(t) ==
    /\ task[t].pc = "i_except"
    /\ client' = [client EXCEPT ![t] = Close(@)]
    /\ temp_host' = ResetContext(Context).host
    /\ temp_port' = ResetContext(Context).port
    /\ result' = [result EXCEPT ![t] = Raised("Setup failed: " \o task[t].err)]
    /\ task' = [task EXCEPT ![t] = NoTask]
    /\ UNCHANGED <<netlog, entry, entered_name, granted, failedSince, devVars>>

(***************************************************************************)
(* Step 2, _verify_pin_step, one action per await                          *)
(***************************************************************************)
\* token = await client.verify_pin(pin)
VerifyPin(t) ==
    /\ task[t].pc = "v_verify"
    /\ \E o \in VerifyPinOutcomes :
        /\ Log(t, "verify_pin", IF o.raise THEN "raise" ELSE "returned", o.token)
        /\ task' = [task EXCEPT ![t] =
                      IF o.raise THEN [@ EXCEPT !.pc = "v_except", !.err = "verify_pin raised"]
                                 ELSE [@ EXCEPT !.pc = "v_close", !.token = o.token]]
        /\ failedSince' = IF o.raise \/ ~Truthy(o.token) THEN TRUE ELSE failedSince
    /\ granted' = {}
    /\ UNCHANGED <<temp_host, temp_port, client, result, entry, entered_name, devVars>>

\* await client.close(); if not token: raise ...; reset the context; return config
CloseVerified(t) ==
    /\ task[t].pc = "v_close"
    /\ client' = [client EXCEPT ![t] = Close(@)]
    /\ IF ~Truthy(task[t].token)
       THEN /\ task' = [task EXCEPT ![t] =
                          [@ EXCEPT !.pc = "v_except", !.err = "PIN verification failed."]]
            /\ UNCHANGED <<temp_host, temp_port, result>>
       ELSE /\ temp_host' = ResetContext(Context).host
            /\ temp_port' = ResetContext(Context).port
            /\ result' = [result EXCEPT ![t] =
                            Config(task[t].name, task[t].host, task[t].port, task[t].token[1])]
            /\ task' = [task EXCEPT ![t] = NoTask]
    /\ UNCHANGED <<netlog, entry, entered_name, granted, failedSince, devVars>>

\* except Exception: await client.close(); reset the context; raise ValueError
VerifyExcept(t) ==
    /\ task[t].pc = "v_except"
    /\ client' = [client EXCEPT ![t] = Close(@)]
    /\ temp_host' = ResetContext(Context).host
    /\ temp_port' = ResetContext(Context).port
    /\ result' = [result EXCEPT ![t] = Raised("PIN verification failed: " \o task[t].err)]
    /\ task' = [task EXCEPT ![t] = NoTask]
    /\ UNCHANGED <<netlog, entry, entered_name, granted, failedSince, devVars>>

(***************************************************************************)
(* The setup flow driven by one caller at a time                           *)
(***************************************************************************)
AllIdle == \A u \in Tasks : task[u].pc = "idle"

Init == FlowInit /\ DevInit

Next ==
    \/ \E t \in SeqTasks, iv \in InputValues : AllIdle /\ QueryDevice(t, iv)
    \/ \E t \in Tasks : WakeUp(t)
    \/ \E t \in Tasks : Settle(t)
    \/ \E t \in Tasks : TestConnection(t)
    \/ \E t \in Tasks : CloseUnreachable(t)
    \/ \E t \in Tasks : RequestPin(t)
    \/ \E t \in Tasks : CloseRequested(t)
    \/ \E t \in Tasks : InitialExcept(t)
    \/ \E t \in Tasks : VerifyPin(t)
    \/ \E t \in Tasks : CloseVerified(t)
    \/ \E t \in Tasks : VerifyExcept(t)

vars == <<flowVars, devVars>>

Spec == Init /\ [][Next]_vars

(***************************************************************************)
(* Properties of the setup flow (one caller at a time)                     *)
(***************************************************************************)
\* the last query_device call of t has returned or raised
Returned(t) == entry[t].called /\ task[t].pc = "idle"

\* the call of t found the flow in AwaitingPin: a step 1 had returned the PIN
\* form and stored its host and port
FoundAwaitingPin(t) == entry[t].called /\ Truthy(entry[t].host)

CarriesPin(t) == entry[t].called /\ "pin" \in DOMAIN entry[t].iv

BlankPin(t) == CarriesPin(t) /\ Strip(entry[t].iv["pin"]) = <<>>

ContextEmpty == temp_host = <<>> /\ temp_port = DefaultPort

Ops(t) == [i \in 1..Len(netlog[t]) |-> netlog[t][i].op]

Count(t, op) == Cardinality({i \in 1..Len(netlog[t]) : netlog[t][i].op = op})

\* C2: after a successful beginPairing, a submitPin with an empty or blank PIN
\* fails with a validation error, makes no network call, creates no client and
\* leaves the pairing context cleared.
C2_BlankPinClearsContext ==
    \A t \in SeqTasks :
        (Returned(t) /\ FoundAwaitingPin(t) /\ BlankPin(t)) =>
            /\ result[t] = Raised("PIN is required")
            /\ ~client[t].created
            /\ netlog[t] = <<>>
            /\ ContextEmpty

\* C3: with the pairing context empty, every query_device call that carries a
\* 'pin', whatever else it carries, fails with a usage error and makes no
\* network call.
C3_PinInIdleNoNetwork ==
    \A t \in SeqTasks :
        (CarriesPin(t) /\ ~FoundAwaitingPin(t)) =>
            /\ netlog[t] = <<>>
            /\ ~client[t].created
            /\ Returned(t) => result[t].kind = "error"

\* C4: a call is about to issue verify_pin only for a host and port whose
\* request_pin returned success with no verify_pin issued since.
C4_VerifyOnlyAfterRequest ==
    \A t \in Tasks :
        task[t].pc = "v_verify" =>
            /\ <<task[t].host, task[t].port>> \in granted
            /\ client[t].host = task[t].host /\ client[t].port = task[t].port

C4_Witness ==
    \E t \in SeqTasks :
        /\ task[t].pc = "v_close"
        /\ Ops(t) = <<"verify_pin">>
        /\ client[t].host = <<"c", ".", "d", ".", "e">> /\ client[t].port = 80

\* C5: every temporary client a query_device call created has been closed at
\* least once when the call has returned or raised, on every exit path.
C5_ClientClosedOnExit ==
    \A t \in Tasks : (Returned(t) /\ client[t].created) => client[t].closes >= 1

C5_Witness ==
    \E t \in SeqTasks :
        /\ Returned(t) /\ client[t].created /\ client[t].closes >= 1
        /\ result[t] = Raised("Setup failed: request_pin raised")

\* C6: after a step 1 that failed in its network phase and after a step 2 that
\* reached verify_pin (token or not), the pairing context is empty again.
C6_ContextResetAfterAttempt ==
    \A t \in SeqTasks :
        (Returned(t) /\ client[t].created /\ result[t] # PinForm) => ContextEmpty

C6_Witness ==
    \E t \in SeqTasks :
        /\ Returned(t) /\ ContextEmpty
        /\ entry[t].port = 80
        /\ Ops(t) = <<"verify_pin">>
        /\ result[t].kind = "error"

\* the identifier the claim states, written position by position
ExpectedIdentifierOk(ident, host, port) ==
    LET n == Len(host)
        d == SubSeq(ident, n + 9, Len(ident))
    IN  /\ Len(ident) >= n + 9
        /\ SubSeq(ident, 1, 7) = <<"f", "i", "r", "e", "t", "v", "_">>
        /\ \A i \in 1..n : ident[7 + i] = (IF host[i] = "." THEN "_" ELSE host[i])
        /\ ident[n + 8] = "_"
        /\ ParseInt(d).ok /\ ParseInt(d).val = port
        /\ \A i \in 1..Len(d) : IsDigit(d[i])
        /\ (Len(d) > 1 => d[1] # "0")

\* C7: step 2 returns a configuration exactly when verify_pin returned a
\* non-empty token; it carries that token, the host and port stored by the
\* preceding step 1, and the identifier firetv_<host with . as _>_<port>.
C7_CompletedConfig ==
    \A t \in SeqTasks :
        (Returned(t) /\ Ops(t) = <<"verify_pin">>) =>
            LET v == netlog[t][1] IN
            /\ (result[t].kind = "config") <=> (v.answer = "returned" /\ Truthy(v.token))
            /\ result[t].kind = "config" =>
                /\ result[t].token = v.token[1]
                /\ <<result[t].host>> = entry[t].host
                /\ result[t].port = entry[t].port
                /\ ExpectedIdentifierOk(result[t].identifier, result[t].host, result[t].port)

C7_Witness ==
    \E t \in SeqTasks :
        /\ Returned(t) /\ result[t].kind = "config"
        /\ result[t].host = <<"c", ".", "d", ".", "e">>
        /\ result[t].port = 8080
        /\ result[t].token = <<"k", "2">>
        /\ result[t].identifier =
             <<"f", "i", "r", "e", "t", "v", "_", "c", "_", "d", "_", "e", "_", "8", "0", "8", "0">>

\* C8: the configuration returned on Completed carries the name entered in the
\* first step, also when the second step's input holds only the 'pin' field.
C8_NameKeptAcrossSteps ==
    \A t \in SeqTasks :
        (Returned(t) /\ result[t].kind = "config" /\ entered_name # <<>>
            /\ DOMAIN entry[t].iv = {"pin"}) =>
            result[t].name \in {entered_name[1], Strip(entered_name[1])}

\* the call of t ran step 1 (_initial_connection_step)
IsStep1(t) == entry[t].called /\ ~IsPinStep(entry[t].iv, entry[t].host)

IsPrefix(a, b) == Len(a) <= Len(b) /\ SubSeq(b, 1, Len(a)) = a

\* C9: step 1 calls wake_up, test_connection, request_pin in this order,
\* request_pin only after test_connection returned true; it returns the PIN
\* form, with the context holding its host and port, exactly when both returned
\* true; a false test_connection gives the connection error without any
\* request_pin, a false request_pin gives the pairing-request error.
C9_Step1Order ==
    \A t \in SeqTasks :
        IsStep1(t) =>
            LET n == Len(netlog[t]) IN
            /\ IsPrefix(Ops(t), <<"wake_up", "test_connection", "request_pin">>)
            /\ n >= 3 => netlog[t][2].answer = "true"
            /\ Returned(t) =>
                /\ (result[t] = PinForm) <=>
                      (n = 3 /\ netlog[t][2].answer = "true" /\ netlog[t][3].answer = "true")
                /\ result[t] = PinForm =>
                      /\ temp_host = <<Strip(entry[t].iv["host"])>>
                      /\ temp_port = client[t].port
                      /\ client[t].host = temp_host[1]
                /\ (n >= 2 /\ netlog[t][2].answer = "false") =>
                      /\ n = 2
                      /\ result[t] = Raised("Setup failed: Cannot reach Fire TV")
                /\ (n = 3 /\ netlog[t][3].answer = "false") =>
                      result[t] = Raised("Setup failed: Failed to request PIN display")

C9_Witness ==
    \E t \in SeqTasks :
        /\ IsStep1(t) /\ Returned(t) /\ result[t] = PinForm
        /\ Len(netlog[t]) = 3
        /\ temp_host = << <<"a", ".", "b">> >> /\ temp_port = 80

\* C10: no automatic retry: one call issues at most one verify_pin and at most
\* one request_pin, and once a verify_pin has failed no call is about to issue
\* verify_pin until a step 1 has returned the PIN form again.
C10_NoAutomaticRetry ==
    \A t \in Tasks :
        /\ Count(t, "verify_pin") <= 1
        /\ Count(t, "request_pin") <= 1
        /\ task[t].pc = "v_verify" => ~failedSince

\* a PIN submission right after a failed verification: no verify_pin was issued
C10_Witness ==
    \E t \in SeqTasks :
        /\ failedSince /\ Returned(t) /\ CarriesPin(t) /\ ~BlankPin(t)
        /\ DOMAIN entry[t].iv = {"pin"}
        /\ Count(t, "verify_pin") = 0

\* what step 1 answers, from the answers of test_connection and request_pin
\* alone: log is the call's network calls after wake_up
Step1Outcome(log) ==
    IF log = <<>> \/ log[1].op # "test_connection" THEN NoResult
    ELSE IF log[1].answer = "raise" THEN Raised("Setup failed: test_connection raised")
    ELSE IF log[1].answer = "false" THEN Raised("Setup failed: Cannot reach Fire TV")
    ELSE IF Len(log) < 2 \/ log[2].op # "request_pin" THEN NoResult
    ELSE IF log[2].answer = "raise" THEN Raised("Setup failed: request_pin raised")
    ELSE IF log[2].answer = "false"
         THEN Raised("Setup failed: Failed to request PIN display")
    ELSE PinForm

HostBlank(t) == "host" \notin DOMAIN entry[t].iv \/ Strip(entry[t].iv["host"]) = <<>>

\* the call of t gave a port that int() does not take
PortNotNumber(t) == "port" \in DOMAIN entry[t].iv /\ ~ParseInt(entry[t].iv["port"]).ok

\* C23: a step 1 with a missing or blank host, or a port that is not a number,
\* fails with a usage error, creates no client, makes no network call and
\* leaves _temp_host and _temp_port as they were when it was called
C23_BadInputLeavesContext ==
    \A t \in SeqTasks :
        (IsStep1(t) /\ Returned(t) /\ (HostBlank(t) \/ PortNotNumber(t))) =>
            /\ result[t] \in {Raised("IP address is required"), Raised("Port must be a number")}
            /\ ~client[t].created
            /\ netlog[t] = <<>>
            /\ temp_host = entry[t].host
            /\ temp_port = entry[t].port

C23_Witness ==
    \E t \in SeqTasks :
        /\ IsStep1(t) /\ Returned(t)
        /\ ~HostBlank(t) /\ PortNotNumber(t)
        /\ Truthy(entry[t].host)
        /\ temp_host = entry[t].host
        /\ temp_host # <<Strip(entry[t].iv["host"])>>

(***************************************************************************)
(* The setup flow with overlapping calls: a second query_device may start  *)
(* while another is suspended at an await                                  *)
(***************************************************************************)
\* the inputs of the overlapping calls
ConcInputValues ==
    {iv \in InputValues :
        /\ DOMAIN iv \subseteq {"host", "pin"}
        /\ "host" \in DOMAIN iv => iv["host"] = <<"a", ".", "b">>
        /\ "pin" \in DOMAIN iv => iv["pin"] # <<" ">>}

ConcNext ==
    \/ \E t \in Tasks, iv \in ConcInputValues : QueryDevice(t, iv)
    \/ \E t \in Tasks : WakeUp(t)
    \/ \E t \in Tasks : Settle(t)
    \/ \E t \in Tasks : TestConnection(t)
    \/ \E t \in Tasks : CloseUnreachable(t)
    \/ \E t \in Tasks : RequestPin(t)
    \/ \E t \in Tasks : CloseRequested(t)
    \/ \E t \in Tasks : InitialExcept(t)
    \/ \E t \in Tasks : VerifyPin(t)
    \/ \E t \in Tasks : CloseVerified(t)
    \/ \E t \in Tasks : VerifyExcept(t)

SpecConc == Init /\ [][ConcNext]_vars

\* step 1 of u is suspended before its request_pin has answered
BeforeRequestAnswer(u) == task[u].pc \in {"i_wake", "i_sleep", "i_test", "i_request"}

\* C11: while a step 1 is still before the answer of its request_pin, no other
\* call that interleaves with it is issuing verify_pin for that host and port
\* unless a request_pin has already returned success for them.
C11_NoVerifyBeforeRequestReturns ==
    \A t \in Tasks, u \in Tasks :
        (/\ t # u
         /\ BeforeRequestAnswer(u)
         /\ task[t].pc = "v_verify"
         /\ task[t].host = task[u].host /\ task[t].port = task[u].port) =>
            <<task[t].host, task[t].port>> \in granted

(***************************************************************************)
(* Device (intg_firetv/device.py): the command translator                  *)
(***************************************************************************)
\* the keys of nav_commands in send_command
NavCommands ==
    { <<"d", "p", "a", "d", "_", "u", "p">>,
      <<"d", "p", "a", "d", "_", "d", "o", "w", "n">>,
      <<"d", "p", "a", "d", "_", "l", "e", "f", "t">>,
      <<"d", "p", "a", "d", "_", "r", "i", "g", "h", "t">>,
      <<"s", "e", "l", "e", "c", "t">>,
      <<"h", "o", "m", "e">>,
      <<"b", "a", "c", "k">>,
      <<"m", "e", "n", "u">>,
      <<"e", "p", "g">>,
      <<"v", "o", "l", "u", "m", "e", "_", "u", "p">>,
      <<"v", "o", "l", "u", "m", "e", "_", "d", "o", "w", "n">>,
      <<"m", "u", "t", "e">>,
      <<"p", "o", "w", "e", "r">>,
      <<"s", "l", "e", "e", "p">> }

\* the keys of media_commands in send_command
MediaCommands ==
    { <<"p", "l", "a", "y", "_", "p", "a", "u", "s", "e">>,
      <<"p", "a", "u", "s", "e">>,
      <<"f", "a", "s", "t", "_", "f", "o", "r", "w", "a", "r", "d">>,
      <<"r", "e", "w", "i", "n", "d">> }

\* FIRE_TV_TOP_APPS (intg_firetv/apps.py), in dict order
FIRE_TV_TOP_APPS ==
    << [id |-> "netflix", name |-> <<"N", "e", "t", "f", "l", "i", "x">>,
        package |-> <<"c", "o", "m", ".", "n", "e", "t", "f", "l", "i", "x", ".", "n", "i", "n", "j", "a">>],
       [id |-> "prime_video", name |-> <<"P", "r", "i", "m", "e", " ", "V", "i", "d", "e", "o">>,
        package |-> <<"c", "o", "m", ".", "a", "m", "a", "z", "o", "n", ".", "a", "v", "o", "d">>],
       [id |-> "disney_plus", name |-> <<"D", "i", "s", "n", "e", "y", "+">>,
        package |-> <<"c", "o", "m", ".", "d", "i", "s", "n", "e", "y", ".", "d", "i", "s", "n", "e", "y", "p", "l", "u", "s">>],
       [id |-> "plex", name |-> <<"P", "l", "e", "x">>,
        package |-> <<"c", "o", "m", ".", "p", "l", "e", "x", "a", "p", "p", ".", "a", "n", "d", "r", "o", "i", "d">>],
       [id |-> "kodi", name |-> <<"K", "o", "d", "i">>,
        package |-> <<"o", "r", "g", ".", "x", "b", "m", "c", ".", "k", "o", "d", "i">>] >>

\* validate_package_name (intg_firetv/apps.py): dot-separated segments of
\* letters, digits and underscores, none empty, at least two
validate_package_name(package) ==
    LET segs == Split(package, ".") IN
    /\ Len(segs) >= 2
    /\ \A i \in 1..Len(segs) :
        /\ segs[i] # <<>>
        /\ \A j \in 1..Len(segs[i]) : IsAlnumUnderscore(segs[i][j])

\* faulty variant: '+' is not replaced
NormalizedNameKeepingPlus(name) == Replace(Upper(name), <<" ">>, <<"_">>)

\* app_data['name'].upper().replace(' ', '_').replace('+', 'PLUS')
NormalizedName(name) == Replace(Replace(Upper(name), <<" ">>, <<"_">>), <<"+">>, <<"P", "L", "U", "S">>)

LaunchPrefix == <<"L", "A", "U", "N", "C", "H", "_">>

CustomAppPrefix == <<"c", "u", "s", "t", "o", "m", "_", "a", "p", "p", ":">>

\* the registry entries a LAUNCH_ command matches, in dict order
LaunchMatches(command) ==
    SelectSeq(FIRE_TV_TOP_APPS,
              LAMBDA app : NormalizedName(app.name) = Replace(command, LaunchPrefix, <<>>))

\* faulty variant: a LAUNCH_ command that matches no registry entry launches
\* the name it carries
DispatchLaunchingUnmatched(command) ==
    LET command_lower == Lower(command) IN
    IF command_lower \in NavCommands THEN <<[op |-> command_lower, arg |-> <<>>]>>
    ELSE IF command_lower \in MediaCommands THEN <<[op |-> command_lower, arg |-> <<>>]>>
    ELSE IF StartsWith(command, LaunchPrefix)
    THEN IF LaunchMatches(command) # <<>>
         THEN <<[op |-> <<"launch_app">>, arg |-> LaunchMatches(command)[1].package]>>
         ELSE <<[op |-> <<"launch_app">>, arg |-> Replace(command, LaunchPrefix, <<>>)]>>
    ELSE IF StartsWith(command, CustomAppPrefix)
    THEN LET package == Strip(AfterFirst(command, ":")) IN
         IF validate_package_name(package)
         THEN <<[op |-> <<"launch_app">>, arg |-> package]>>
         ELSE <<>>
    ELSE <<>>

\* faulty variant: the package of a custom_app: command is not trimmed
DispatchUntrimmed(command) ==
    LET command_lower == Lower(command) IN
    IF command_lower \in NavCommands THEN <<[op |-> command_lower, arg |-> <<>>]>>
    ELSE IF command_lower \in MediaCommands THEN <<[op |-> command_lower, arg |-> <<>>]>>
    ELSE IF StartsWith(command, LaunchPrefix)
    THEN IF LaunchMatches(command) # <<>>
         THEN <<[op |-> <<"launch_app">>, arg |-> LaunchMatches(command)[1].package]>>
         ELSE <<>>
    ELSE IF StartsWith(command, CustomAppPrefix)
    THEN LET package == AfterFirst(command, ":") IN
         IF validate_package_name(package)
         THEN <<[op |-> <<"launch_app">>, arg |-> package]>>
         ELSE <<>>
    ELSE <<>>

\* the transport call send_command selects for a command: <<>> for none
Dispatch(command) ==
    LET command_lower == Lower(command) IN
    IF command_lower \in NavCommands THEN <<[op |-> command_lower, arg |-> <<>>]>>
    ELSE IF command_lower \in MediaCommands THEN <<[op |-> command_lower, arg |-> <<>>]>>
    ELSE IF StartsWith(command, LaunchPrefix)
    THEN IF LaunchMatches(command) # <<>>
         THEN <<[op |-> <<"launch_app">>, arg |-> LaunchMatches(command)[1].package]>>
         ELSE <<>>
    ELSE IF StartsWith(command, CustomAppPrefix)
    THEN LET package == Strip(AfterFirst(command, ":")) IN
         IF validate_package_name(package)
         THEN <<[op |-> <<"launch_app">>, arg |-> package]>>
         ELSE <<>>
    ELSE <<>>

\* _create_top_apps_page: the command of the button of a registry application
TopAppCommand(app) ==
    LET cmd_name == Replace(Replace(Upper(app.name), <<" ">>, <<"_">>), <<"+">>, <<"P", "L", "U", "S">>)
    IN LaunchPrefix \o cmd_name

TopAppCommands == {TopAppCommand(FIRE_TV_TOP_APPS[i]) : i \in 1..Len(FIRE_TV_TOP_APPS)}

\* _build_simple_commands
SimpleCommands ==
    { <<"D", "P", "A", "D", "_", "U", "P">>,
      <<"D", "P", "A", "D", "_", "D", "O", "W", "N">>,
      <<"D", "P", "A", "D", "_", "L", "E", "F", "T">>,
      <<"D", "P", "A", "D", "_", "R", "I", "G", "H", "T">>,
      <<"S", "E", "L", "E", "C", "T">>,
      <<"H", "O", "M", "E">>,
      <<"B", "A", "C", "K">>,
      <<"M", "E", "N", "U">>,
      <<"E", "P", "G">>,
      <<"V", "O", "L", "U", "M", "E", "_", "U", "P">>,
      <<"V", "O", "L", "U", "M", "E", "_", "D", "O", "W", "N">>,
      <<"M", "U", "T", "E">>,
      <<"P", "O", "W", "E", "R">>,
      <<"S", "L", "E", "E", "P">>,
      <<"P", "L", "A", "Y", "_", "P", "A", "U", "S", "E">>,
      <<"P", "A", "U", "S", "E">>,
      <<"F", "A", "S", "T", "_", "F", "O", "R", "W", "A", "R", "D">>,
      <<"R", "E", "W", "I", "N", "D">>,
      <<"L", "A", "U", "N", "C", "H", "_", "N", "E", "T", "F", "L", "I", "X">>,
      <<"L", "A", "U", "N", "C", "H", "_", "P", "R", "I", "M", "E", "_", "V", "I", "D", "E", "O">>,
      <<"L", "A", "U", "N", "C", "H", "_", "D", "I", "S", "N", "E", "Y", "_", "P", "L", "U", "S">>,
      <<"L", "A", "U", "N", "C", "H", "_", "P", "L", "E", "X">>,
      <<"L", "A", "U", "N", "C", "H", "_", "K", "O", "D", "I">> }

\* _create_button_mapping: the short and long press commands
ButtonCommands ==
    { <<"D", "P", "A", "D", "_", "U", "P">>,
      <<"D", "P", "A", "D", "_", "D", "O", "W", "N">>,
      <<"D", "P", "A", "D", "_", "L", "E", "F", "T">>,
      <<"D", "P", "A", "D", "_", "R", "I", "G", "H", "T">>,
      <<"S", "E", "L", "E", "C", "T">>,
      <<"B", "A", "C", "K">>,
      <<"H", "O", "M", "E">>,
      <<"M", "E", "N", "U">>,
      <<"P", "L", "A", "Y", "_", "P", "A", "U", "S", "E">>,
      <<"V", "O", "L", "U", "M", "E", "_", "U", "P">>,
      <<"V", "O", "L", "U", "M", "E", "_", "D", "O", "W", "N">>,
      <<"M", "U", "T", "E">>,
      <<"P", "O", "W", "E", "R">>,
      <<"L", "A", "U", "N", "C", "H", "_", "N", "E", "T", "F", "L", "I", "X">>,
      <<"L", "A", "U", "N", "C", "H", "_", "P", "R", "I", "M", "E", "_", "V", "I", "D", "E", "O">>,
      <<"L", "A", "U", "N", "C", "H", "_", "D", "I", "S", "N", "E", "Y", "_", "P", "L", "U", "S">>,
      <<"L", "A", "U", "N", "C", "H", "_", "P", "L", "E", "X">> }

\* _create_navigation_page
NavigationPageCommands ==
    { <<"D", "P", "A", "D", "_", "U", "P">>,
      <<"D", "P", "A", "D", "_", "L", "E", "F", "T">>,
      <<"S", "E", "L", "E", "C", "T">>,
      <<"D", "P", "A", "D", "_", "R", "I", "G", "H", "T">>,
      <<"D", "P", "A", "D", "_", "D", "O", "W", "N">>,
      <<"H", "O", "M", "E">>,
      <<"B", "A", "C", "K">>,
      <<"M", "E", "N", "U">>,
      <<"V", "O", "L", "U", "M", "E", "_", "D", "O", "W", "N">>,
      <<"M", "U", "T", "E">>,
      <<"V", "O", "L", "U", "M", "E", "_", "U", "P">>,
      <<"R", "E", "W", "I", "N", "D">>,
      <<"P", "L", "A", "Y", "_", "P", "A", "U", "S", "E">>,
      <<"F", "A", "S", "T", "_", "F", "O", "R", "W", "A", "R", "D">>,
      <<"P", "O", "W", "E", "R">>,
      <<"S", "L", "E", "E", "P">>,
      <<"E", "P", "G">> }

\* the ids of the applications _create_top_apps_page puts on its page
TopAppIds == {"netflix", "prime_video", "disney_plus", "plex", "kodi"}

\* the commands of the top-apps page: one per listed id found in the registry
TopAppsPageCommands ==
    {TopAppCommand(FIRE_TV_TOP_APPS[i]) :
        i \in {j \in 1..Len(FIRE_TV_TOP_APPS) : FIRE_TV_TOP_APPS[j].id \in TopAppIds}}

\* every command the remote entity's buttons, pages and simple-command list hold
EmittedCommands ==
    SimpleCommands \cup ButtonCommands \cup NavigationPageCommands \cup TopAppsPageCommands

\* the commands the remote entity is sent
CommandInputs == TopAppCommands \cup
    { <<"H", "O", "M", "E">>,
      <<"h", "o", "m", "e">>,
      <<"P", "a", "u", "s", "e">>,
      <<"L", "A", "U", "N", "C", "H", "_", "N", "E", "T", "F", "L", "I", "X">>,
      <<"L", "A", "U", "N", "C", "H", "_", "P", "R", "I", "M", "E", "_", "V", "I", "D", "E", "O">>,
      <<"L", "A", "U", "N", "C", "H", "_", "H", "U", "L", "U">>,
      <<"l", "a", "u", "n", "c", "h", "_", "n", "e", "t", "f", "l", "i", "x">>,
      <<"c", "u", "s", "t", "o", "m", "_", "a", "p", "p", ":", " ", "c", "o", "m", ".", "h", "u", "l", "u", ".", "p", "l", "u", "s", " ">>,
      <<"c", "u", "s", "t", "o", "m", "_", "a", "p", "p", ":", "n", "o", "t", "a", "p", "a", "c", "k", "a", "g", "e">>,
      <<"c", "u", "s", "t", "o", "m", "_", "a", "p", "p", ":", "x", ":", "a", ".", "b">>,
      <<"C", "U", "S", "T", "O", "M", "_", "A", "P", "P", ":", "a", ".", "b">>,
      <<"L", "A", "U", "N", "C", "H", "_", "D", "I", "S", "N", "E", "Y", "_", "P", "L", "U", "S">>,
      <<"R", "E", "B", "O", "O", "T">> }

\* Dispatch over the commands sent, computed once
DispatchTable == [c \in CommandInputs \cup EmittedCommands |-> Dispatch(c)]

DispatchOf(command) ==
    IF command \in DOMAIN DispatchTable THEN DispatchTable[command] ELSE Dispatch(command)

\* what a transport call of the client answers: a boolean, or it raises
TransportOutcomes == {"true", "false", "TokenInvalidError", "ClientError", "TimeoutError"}

Exceptions == {"TokenInvalidError", "ClientError", "TimeoutError"}

\* faulty variant: only the rejected token is handled
SendCommandCatchesTokenOnly(exc) == exc = "TokenInvalidError"

\* send_command's handler: except Exception
SendCommandCatches(exc) == exc \in Exceptions

\* faulty variant: a transport call that answers false or raises is tried again
send_command_retrying(cl, command, o) ==
    IF cl = <<>> THEN [ret |-> FALSE, raised |-> "", calls |-> <<>>]
    ELSE IF DispatchOf(command) = <<>> THEN [ret |-> FALSE, raised |-> "", calls |-> <<>>]
    ELSE IF o = "true" THEN [ret |-> TRUE, raised |-> "", calls |-> DispatchOf(command)]
    ELSE [ret |-> FALSE, raised |-> "", calls |-> DispatchOf(command) \o DispatchOf(command)]

\* send_command(command) with the transport answering o:
\* what it returns or raises, and the transport calls it made
send_command(cl, command, o) ==
    IF cl = <<>> THEN [ret |-> FALSE, raised |-> "", calls |-> <<>>]
    ELSE IF DispatchOf(command) = <<>> THEN [ret |-> FALSE, raised |-> "", calls |-> <<>>]
    ELSE IF o \in Exceptions
         THEN IF SendCommandCatches(o)
              THEN [ret |-> FALSE, raised |-> "", calls |-> DispatchOf(command)]
              ELSE [ret |-> FALSE, raised |-> o, calls |-> DispatchOf(command)]
         ELSE [ret |-> (o = "true"), raised |-> "", calls |-> DispatchOf(command)]

(***************************************************************************)
(* Device: the client's lifecycle                                          *)
(***************************************************************************)
\* FireTVClient(host, port, token): no session until the first request
NewDeviceClient == [session |-> "none"]

\* a request of the client opens its session when it has none that is open
EnsureSession(c) == [c EXCEPT !.session = "open"]

\* FireTVClient.close(): closes the session if one is open
CloseSession(c) == [c EXCEPT !.session = IF @ = "open" THEN "closed" ELSE @]

\* the most sessions the device may leave behind open
MaxOrphans == 2

\* open sessions left behind when the held client is dropped without close()
Dropped(cl) == IF cl # <<>> /\ cl[1].session = "open" THEN 1 ELSE 0

\* create_client: self._client = FireTVClient(...); the client held before is
\* neither closed nor kept
CreateClient ==
    /\ dev_orphans + Dropped(dev_client) <= MaxOrphans
    /\ dev_orphans' = dev_orphans + Dropped(dev_client)
    /\ dev_client' = <<NewDeviceClient>>
    /\ dev_events' = <<>>
    /\ dev_raised' = ""
    /\ dev_op' = "create"
    /\ dev_check' = <<>>
    /\ dev_disc' = 0
    /\ dev_calls' = <<>>
    /\ dev_phase' = "created"
    /\ UNCHANGED <<dev_reachable, rem_state, rem_last, flowVars>>

\* what test_connection can answer: never true when the device is unreachable
ConnectAnswers == IF dev_reachable THEN BOOLEAN ELSE {FALSE}

\* faulty variant: CONNECTED is emitted before the answer is looked at
ConnectClientEmittingFirst ==
    /\ IF dev_client = <<>>
       THEN /\ dev_raised' = "RuntimeError"
            /\ dev_events' = <<>>
            /\ dev_calls' = <<>>
            /\ UNCHANGED dev_client
       ELSE \E connected \in ConnectAnswers :
            /\ dev_client' = <<EnsureSession(dev_client[1])>>
            /\ dev_calls' = <<[op |-> "test_connection", answer |-> connected]>>
            /\ dev_raised' = IF connected THEN "" ELSE "ConnectionError"
            /\ dev_events' = <<"CONNECTED">>
    /\ dev_op' = "connect"
    /\ dev_check' = <<>>
    /\ dev_disc' = 0
    /\ UNCHANGED <<dev_orphans, dev_reachable, dev_phase, rem_state, rem_last, flowVars>>

\* connect_client: RuntimeError without a client; else test_connection, then
\* ConnectionError or the CONNECTED event
ConnectClient ==
    /\ IF dev_client = <<>>
       THEN /\ dev_raised' = "RuntimeError"
            /\ dev_events' = <<>>
            /\ dev_calls' = <<>>
            /\ UNCHANGED dev_client
       ELSE \E connected \in ConnectAnswers :
            /\ dev_client' = <<EnsureSession(dev_client[1])>>
            /\ dev_calls' = <<[op |-> "test_connection", answer |-> connected]>>
            /\ dev_raised' = IF connected THEN "" ELSE "ConnectionError"
            /\ dev_events' = IF connected THEN <<"CONNECTED">> ELSE <<>>
    /\ dev_op' = "connect"
    /\ dev_check' = <<>>
    /\ dev_disc' = 0
    /\ UNCHANGED <<dev_orphans, dev_reachable, dev_phase, rem_state, rem_last, flowVars>>

\* what close() of the held client does: it returns (TRUE) or raises (FALSE)
CloseAnswers == BOOLEAN

\* the client calls of disconnect_client
DisconnectCalls(closed) ==
    IF dev_client = <<>> THEN <<>> ELSE <<[op |-> "close", answer |-> closed]>>

\* faulty variant: close() is called without looking whether a client is held
DisconnectClientUnguarded ==
    /\ \E closed \in CloseAnswers : dev_calls' = DisconnectCalls(closed)
    /\ dev_client' = <<>>
    /\ dev_events' = IF dev_client = <<>> THEN <<>> ELSE <<"DISCONNECTED">>
    /\ dev_raised' = IF dev_client = <<>> THEN "AttributeError" ELSE ""
    /\ dev_op' = "disconnect"
    /\ dev_check' = <<>>
    /\ dev_disc' = IF dev_disc < 2 THEN dev_disc + 1 ELSE 2
    /\ dev_phase' = "disconnected"
    /\ UNCHANGED <<dev_orphans, dev_reachable, rem_state, rem_last, flowVars>>

\* faulty variant: an error of close() is not caught
DisconnectClientUncaught ==
    /\ \E closed \in CloseAnswers :
        /\ dev_calls' = DisconnectCalls(closed)
        /\ dev_raised' = IF dev_client # <<>> /\ ~closed THEN "ClientError" ELSE ""
        /\ dev_events' = IF dev_client # <<>> /\ ~closed THEN <<>> ELSE <<"DISCONNECTED">>
    /\ dev_client' = <<>>
    /\ dev_op' = "disconnect"
    /\ dev_check' = <<>>
    /\ dev_disc' = IF dev_disc < 2 THEN dev_disc + 1 ELSE 2
    /\ dev_phase' = "disconnected"
    /\ UNCHANGED <<dev_orphans, dev_reachable, rem_state, rem_last, flowVars>>

\* faulty variant: the closed client stays in self._client
DisconnectClientKeepingClient ==
    /\ \E closed \in CloseAnswers : dev_calls' = DisconnectCalls(closed)
    /\ dev_client' = IF dev_client = <<>> THEN <<>> ELSE <<CloseSession(dev_client[1])>>
    /\ dev_events' = <<"DISCONNECTED">>
    /\ dev_raised' = ""
    /\ dev_op' = "disconnect"
    /\ dev_check' = <<>>
    /\ dev_disc' = IF dev_disc < 2 THEN dev_disc + 1 ELSE 2
    /\ dev_phase' = "disconnected"
    /\ UNCHANGED <<dev_orphans, dev_reachable, rem_state, rem_last, flowVars>>

\* disconnect_client: close the held client (an error of close() is only
\* logged), drop it, emit DISCONNECTED
DisconnectClient ==
    /\ \E closed \in CloseAnswers : dev_calls' = DisconnectCalls(closed)
    /\ dev_client' = <<>>
    /\ dev_events' = <<"DISCONNECTED">>
    /\ dev_raised' = ""
    /\ dev_op' = "disconnect"
    /\ dev_check' = <<>>
    /\ dev_disc' = IF dev_disc < 2 THEN dev_disc + 1 ELSE 2
    /\ dev_phase' = "disconnected"
    /\ UNCHANGED <<dev_orphans, dev_reachable, rem_state, rem_last, flowVars>>

\* faulty variant: a closed session still counts as connected
check_client_connected_ignoring_closed(cl) ==
    IF cl = <<>> THEN FALSE
    ELSE IF cl[1].session = "none" THEN FALSE
    ELSE TRUE

\* check_client_connected(): the value it returns for the client held
check_client_connected(cl) ==
    IF cl = <<>> THEN FALSE
    ELSE IF cl[1].session = "none" \/ cl[1].session = "closed" THEN FALSE
    ELSE TRUE

\* the watchdog's health check
CheckClientConnected ==
    /\ dev_check' = <<check_client_connected(dev_client)>>
    /\ dev_op' = "check"
    /\ UNCHANGED <<dev_client, dev_events, dev_raised, dev_disc, dev_orphans, dev_reachable,
                   dev_calls, dev_phase, rem_state, rem_last, flowVars>>

\* the held client is closed through the device's public `client` property
CloseHeldClient ==
    /\ dev_client # <<>>
    /\ dev_client' = <<CloseSession(dev_client[1])>>
    /\ dev_events' = <<>>
    /\ dev_raised' = ""
    /\ dev_op' = "close"
    /\ dev_check' = <<>>
    /\ dev_disc' = 0
    /\ dev_calls' = <<>>
    /\ UNCHANGED <<dev_orphans, dev_reachable, dev_phase, rem_state, rem_last, flowVars>>

(***************************************************************************)
(* Remote entity (intg_firetv/remote.py): _handle_command                  *)
(***************************************************************************)
CmdIds == {"send_cmd", "on", "off", "toggle", "stop"}

\* params: None (<<>>) or a dict (<<d>>)
ParamInputs ==
    {<<>>, << <<>> >>}
        \cup {<< [k \in {"command"} |-> c] >> : c \in CommandInputs}
        \cup {<< [k \in {"repeat"} |-> c] >> : c \in {<<"1">>}}

\* params and 'command' in params
HasCommand(params) == params # <<>> /\ DOMAIN params[1] # {} /\ "command" \in DOMAIN params[1]

\* the status _handle_command answers a send_cmd with
SendCmdStatus(r) ==
    IF r.raised = "TokenInvalidError" THEN "UNAUTHORIZED"
    ELSE IF r.raised # "" THEN "SERVER_ERROR"
    ELSE IF r.ret THEN "OK" ELSE "SERVER_ERROR"

\* faulty variant: toggle switches on whatever the state
StateAfterToggleOn(cmd_id, state) ==
    CASE cmd_id = "on" -> "ON"
      [] cmd_id = "off" -> "OFF"
      [] cmd_id = "toggle" -> "ON"
      [] OTHER -> state

\* attributes[Attributes.STATE] after a command that is not a send_cmd with a
\* command
StateAfter(cmd_id, state) ==
    CASE cmd_id = "on" -> "ON"
      [] cmd_id = "off" -> "OFF"
      [] cmd_id = "toggle" -> (IF state = "ON" THEN "OFF" ELSE "ON")
      [] OTHER -> state

\* what a transport call can do: an unreachable device neither succeeds nor
\* rejects the token
TransportAnswers == IF dev_reachable THEN TransportOutcomes ELSE {"false", "ClientError", "TimeoutError"}

HandleCommand(cmd_id, params) ==
    /\ IF cmd_id = "send_cmd" /\ HasCommand(params)
       THEN \E o \in TransportAnswers :
            LET r == send_command(dev_client, params[1]["command"], o) IN
            /\ rem_last' = [called |-> TRUE, cmd_id |-> cmd_id, params |-> params,
                            status |-> SendCmdStatus(r),
                            sent |-> IF r.calls = <<>> THEN "" ELSE o, calls |-> r.calls,
                            ret |-> IF r.raised = "" THEN <<r.ret>> ELSE <<>>,
                            raised |-> r.raised, before |-> rem_state]
            /\ dev_client' = IF r.calls = <<>> THEN dev_client
                                               ELSE <<EnsureSession(dev_client[1])>>
            /\ UNCHANGED rem_state
       ELSE /\ rem_state' = StateAfter(cmd_id, rem_state)
            /\ rem_last' = [called |-> TRUE, cmd_id |-> cmd_id, params |-> params,
                            status |-> IF cmd_id \in {"on", "off", "toggle"}
                                       THEN "OK" ELSE "NOT_IMPLEMENTED",
                            sent |-> "", calls |-> <<>>, ret |-> <<>>, raised |-> "",
                            before |-> rem_state]
            /\ UNCHANGED dev_client
    /\ dev_op' = "command"
    /\ dev_check' = <<>>
    /\ dev_disc' = 0
    /\ UNCHANGED <<dev_events, dev_raised, dev_orphans, dev_reachable, dev_calls, dev_phase,
                   flowVars>>

(***************************************************************************)
(* Remote entity: the commands its buttons and pages are bound to          *)
(***************************************************************************)
\* the user presses a button or taps a page item, or an activity sends a
\* simple command: send_cmd with that command
EmitCommand ==
    \E c \in EmittedCommands : HandleCommand("send_cmd", <<[k \in {"command"} |-> c]>>)

RemoteNext ==
    \/ CreateClient
    \/ ConnectClient
    \/ DisconnectClient
    \/ EmitCommand

SpecRemote == Init /\ [][RemoteNext]_vars

DeviceNext ==
    \/ CreateClient
    \/ ConnectClient
    \/ DisconnectClient
    \/ CheckClientConnected
    \/ CloseHeldClient
    \/ \E cmd_id \in CmdIds, params \in ParamInputs : HandleCommand(cmd_id, params)

SpecDevice == Init /\ [][DeviceNext]_vars

\* the Fire TV reboots or drops off the network
BecomeUnreachable ==
    /\ dev_reachable
    /\ dev_reachable' = FALSE
    /\ UNCHANGED <<dev_client, dev_events, dev_raised, dev_op, dev_check, dev_disc,
                   dev_orphans, dev_calls, dev_phase, rem_state, rem_last, flowVars>>

\* the device under its watchdog: the health check is polled and commands keep
\* arriving, the Fire TV may become unreachable, nothing calls disconnect
WatchdogNext ==
    \/ CreateClient
    \/ ConnectClient
    \/ CheckClientConnected
    \/ BecomeUnreachable
    \/ \E params \in ParamInputs : HandleCommand("send_cmd", params)

SpecWatchdog ==
    /\ Init
    /\ [][WatchdogNext]_vars
    /\ WF_vars(CheckClientConnected)
    /\ WF_vars(\E params \in ParamInputs : HandleCommand("send_cmd", params))

HeldSessionOpen == dev_client # <<>> /\ dev_client[1].session = "open"

\* C12: check_client_connected returns true exactly when the device holds a
\* client whose session exists and is not closed; the call touches neither the
\* network nor the device's state, so the client held after it is the one judged
C12_HealthCheckIsSessionOpen ==
    dev_op = "check" =>
        /\ dev_check # <<>>
        /\ dev_check[1] = HeldSessionOpen

C12_Witness ==
    /\ dev_op = "check"
    /\ dev_check = <<FALSE>>
    /\ dev_client # <<>>
    /\ dev_client[1].session = "closed"

ConnectedThenUnreachable ==
    /\ ~dev_reachable
    /\ dev_events = <<"CONNECTED">>
    /\ HeldSessionOpen

\* C13: when the Fire TV becomes unreachable after a successful connect and
\* nothing calls disconnect, the polled health check eventually returns False
C13_UnreachableLeadsToUnhealthy ==
    ConnectedThenUnreachable ~> (dev_op = "check" /\ dev_check = <<FALSE>>)

\* C14: disconnect_client called once or twice in a row raises nothing and
\* check_client_connected is false after each call; it is false as well
\* whenever the held client's session has been closed
C14_CloseIdempotent ==
    /\ dev_disc >= 1 =>
        /\ dev_raised = ""
        /\ ~check_client_connected(dev_client)
        /\ dev_op = "check" => dev_check = <<FALSE>>
    /\ (dev_op = "check" /\ dev_client # <<>> /\ dev_client[1].session = "closed") =>
        dev_check = <<FALSE>>

C14_Witness ==
    /\ dev_disc = 2
    /\ dev_op = "check"
    /\ dev_check = <<FALSE>>

\* the sessions created by the device's clients that are open and not closed
OpenSessions == dev_orphans + (IF HeldSessionOpen THEN 1 ELSE 0)

\* C15: whatever create_client, connect_client and disconnect_client calls were
\* made, at most one session created by the device is open and not closed
C15_AtMostOneOpenSession == OpenSessions <= 1


(***************************************************************************)
(* Properties of the command path                                          *)
(***************************************************************************)
\* C1: when the transport call of a send_cmd raises TokenInvalidError, the
\* outcome stays distinguishable from a generic failure: send_command does not
\* turn it into False and _handle_command answers UNAUTHORIZED, not
\* SERVER_ERROR.
C1_TokenInvalidIsUnauthorized ==
    (rem_last.called /\ rem_last.cmd_id = "send_cmd" /\ rem_last.sent = "TokenInvalidError") =>
        /\ rem_last.status = "UNAUTHORIZED"
        /\ send_command(<<NewDeviceClient>>, rem_last.params[1]["command"],
                        "TokenInvalidError").raised = "TokenInvalidError"

\* the last operation was send_cmd with a command, on a device holding a client
CommandSent ==
    /\ dev_op = "command"
    /\ rem_last.cmd_id = "send_cmd"
    /\ HasCommand(rem_last.params)
    /\ dev_client # <<>>

LastCommand == rem_last.params[1]["command"]

\* the canonical spelling of a command: LAUNCH_<NAME> in upper case, the
\* custom_app: prefix in lower case before the package as given, every other
\* name in lower case
CanonicalSpelling(command) ==
    IF StartsWith(Lower(command), Lower(LaunchPrefix)) THEN Upper(command)
    ELSE IF StartsWith(Lower(command), CustomAppPrefix)
    THEN CustomAppPrefix \o SubSeq(command, Len(CustomAppPrefix) + 1, Len(command))
    ELSE Lower(command)

\* C16: send_command dispatches every upper/lower-case variant of a command,
\* LAUNCH_<NAME> and the custom_app: prefix included, to the transport call of
\* its canonical spelling
C16_CaseInsensitiveDispatch ==
    CommandSent => rem_last.calls = Dispatch(CanonicalSpelling(LastCommand))

IsKeyCommand(command) == Lower(command) \in NavCommands \cup MediaCommands

\* a command that is no key name and carries neither prefix
MatchesNoEntry(command) ==
    /\ ~IsKeyCommand(command)
    /\ ~StartsWith(command, LaunchPrefix)
    /\ ~StartsWith(command, CustomAppPrefix)

\* a LAUNCH_<NAME> command whose name is the normalized name of no application
NoRegistryMatch(command) ==
    /\ ~IsKeyCommand(command)
    /\ StartsWith(command, LaunchPrefix)
    /\ \A i \in 1..Len(FIRE_TV_TOP_APPS) :
        NormalizedName(FIRE_TV_TOP_APPS[i].name) # Replace(command, LaunchPrefix, <<>>)

\* C17: a command matching no dispatch entry, and a LAUNCH_<NAME> command with
\* no registry match, make send_command return False with no transport call and
\* without raising
C17_UnknownCommandFailsQuietly ==
    (CommandSent /\ (MatchesNoEntry(LastCommand) \/ NoRegistryMatch(LastCommand))) =>
        /\ rem_last.calls = <<>>
        /\ rem_last.ret = <<FALSE>>
        /\ rem_last.raised = ""

C17_Witness ==
    /\ CommandSent
    /\ NoRegistryMatch(LastCommand)
    /\ rem_last.ret = <<FALSE>>

\* the package a custom_app: command names: the text after the first ':', trimmed
NamedPackage(command) == Strip(AfterFirst(command, ":"))

\* C18: for a custom_app:<package> command launch_app is called with exactly
\* the trimmed text after the first ':' when that text passes package-name
\* validation; otherwise send_command returns False and calls nothing
C18_CustomAppValidated ==
    (CommandSent /\ StartsWith(LastCommand, CustomAppPrefix)) =>
        IF validate_package_name(NamedPackage(LastCommand))
        THEN rem_last.calls = <<[op |-> <<"launch_app">>, arg |-> NamedPackage(LastCommand)]>>
        ELSE /\ rem_last.calls = <<>>
             /\ rem_last.ret = <<FALSE>>
             /\ rem_last.raised = ""

C18_Witness ==
    /\ CommandSent
    /\ StartsWith(LastCommand, CustomAppPrefix)
    /\ NamedPackage(LastCommand) # AfterFirst(LastCommand, ":")
    /\ rem_last.calls # <<>>

\* C19: the command the top-apps page generates for a registry application is
\* resolved by send_command to launch_app with that application's package
C19_LaunchRoundTrip ==
    \A i \in 1..Len(FIRE_TV_TOP_APPS) :
        (CommandSent /\ LastCommand = TopAppCommand(FIRE_TV_TOP_APPS[i])) =>
            rem_last.calls = <<[op |-> <<"launch_app">>, arg |-> FIRE_TV_TOP_APPS[i].package]>>

C19_Witness ==
    \E i \in 1..Len(FIRE_TV_TOP_APPS) :
        /\ CommandSent
        /\ LastCommand = TopAppCommand(FIRE_TV_TOP_APPS[i])
        /\ "+" \in {FIRE_TV_TOP_APPS[i].name[j] : j \in 1..Len(FIRE_TV_TOP_APPS[i].name)}
        /\ rem_last.calls # <<>>

\* C20: a transport exception other than the rejected token, raised while a
\* command is sent, does not leave send_command: it returns False, and
\* _handle_command answers SERVER_ERROR
C20_TransportErrorIsFalse ==
    (CommandSent /\ rem_last.sent \in Exceptions \ {"TokenInvalidError"}) =>
        /\ rem_last.raised = ""
        /\ rem_last.ret = <<FALSE>>
        /\ rem_last.status = "SERVER_ERROR"

C20_Witness ==
    /\ CommandSent
    /\ rem_last.sent = "TimeoutError"
    /\ rem_last.status = "SERVER_ERROR"

\* a command send_command has a transport call for: a key name in any case, a
\* LAUNCH_ name of the registry, or custom_app: with a valid package
Recognized(command) ==
    \/ IsKeyCommand(command)
    \/ /\ StartsWith(command, LaunchPrefix)
       /\ ~NoRegistryMatch(command)
    \/ /\ ~StartsWith(command, LaunchPrefix)
       /\ StartsWith(command, CustomAppPrefix)
       /\ validate_package_name(NamedPackage(command))

\* C21: one send_command issues exactly one transport call when the command is
\* recognized and none otherwise, whatever that transport call answers
C21_OneTransportCall ==
    CommandSent =>
        Len(rem_last.calls) = (IF Recognized(LastCommand) THEN 1 ELSE 0)

C21_Witness ==
    /\ CommandSent
    /\ Recognized(LastCommand)
    /\ rem_last.sent = "false"
    /\ Len(rem_last.calls) = 1

\* the answer test_connection gave the last connect_client, <<>> if it was not called
Tested ==
    IF dev_calls # <<>> /\ dev_calls[1].op = "test_connection"
    THEN <<dev_calls[1].answer>> ELSE <<>>

\* C24: connect_client emits CONNECTED exactly when test_connection returned
\* true; without a client it raises RuntimeError and calls nothing, and when
\* test_connection returns false it raises ConnectionError
C24_ConnectedIffReachable ==
    dev_op = "connect" =>
        /\ (dev_events = <<"CONNECTED">>) <=> (Tested = <<TRUE>>)
        /\ dev_events \in {<<>>, <<"CONNECTED">>}
        /\ dev_client = <<>> <=> dev_calls = <<>>
        /\ dev_client = <<>> <=> dev_raised = "RuntimeError"
        /\ Tested = <<FALSE>> <=> dev_raised = "ConnectionError"
        /\ Tested = <<TRUE>> <=> dev_raised = ""

C24_Witness ==
    /\ dev_op = "connect"
    /\ Tested = <<FALSE>>
    /\ dev_raised = "ConnectionError"
    /\ dev_events = <<>>

\* C25: disconnect_client raises nothing, leaves the device without a client
\* and emits DISCONNECTED once, also when close() raises and when no client
\* was held
C25_DisconnectAlwaysCompletes ==
    dev_op = "disconnect" =>
        /\ dev_raised = ""
        /\ dev_client = <<>>
        /\ dev_events = <<"DISCONNECTED">>

C25_Witness ==
    /\ dev_op = "disconnect"
    /\ dev_calls = <<[op |-> "close", answer |-> FALSE]>>
    /\ dev_events = <<"DISCONNECTED">>

\* C26: before the first create_client, and after a disconnect_client until the
\* next create_client, send_command returns False and makes no transport call,
\* whatever the command
C26_NoClientNoCall ==
    (/\ dev_op = "command"
     /\ rem_last.cmd_id = "send_cmd"
     /\ HasCommand(rem_last.params)
     /\ dev_phase \in {"new", "disconnected"}) =>
        /\ rem_last.calls = <<>>
        /\ rem_last.ret = <<FALSE>>
        /\ rem_last.raised = ""

C26_Witness ==
    /\ dev_op = "command"
    /\ rem_last.cmd_id = "send_cmd"
    /\ HasCommand(rem_last.params)
    /\ dev_phase = "disconnected"
    /\ Recognized(rem_last.params[1]["command"])
    /\ rem_last.ret = <<FALSE>>

StatusCodes == {"OK", "SERVER_ERROR", "NOT_IMPLEMENTED", "UNAUTHORIZED"}

Flipped(state) == IF state = "ON" THEN "OFF" ELSE "ON"

\* C27: _handle_command answers one of the four status codes and raises
\* nothing; a send_cmd with a command is OK exactly when send_command returned
\* true; on, off and toggle answer OK, call nothing and set the state to ON, to
\* OFF, or flip it (two toggles restore it); every other cmd_id, and a send_cmd
\* without a command, answers NOT_IMPLEMENTED and changes nothing
C27_HandleCommandStatus ==
    rem_last.called =>
        /\ rem_last.status \in StatusCodes
        /\ rem_state \in {"ON", "OFF"}
        /\ IF rem_last.cmd_id = "send_cmd" /\ HasCommand(rem_last.params)
           THEN /\ (rem_last.status = "OK") <=> (rem_last.ret = <<TRUE>>)
                /\ rem_state = rem_last.before
           ELSE /\ rem_last.calls = <<>>
                /\ rem_last.cmd_id = "on" => (rem_last.status = "OK" /\ rem_state = "ON")
                /\ rem_last.cmd_id = "off" => (rem_last.status = "OK" /\ rem_state = "OFF")
                /\ rem_last.cmd_id = "toggle" =>
                    /\ rem_last.status = "OK"
                    /\ rem_state = Flipped(rem_last.before)
                    /\ Flipped(rem_state) = rem_last.before
                /\ rem_last.cmd_id \notin {"on", "off", "toggle"} =>
                    (rem_last.status = "NOT_IMPLEMENTED" /\ rem_state = rem_last.before)

C27_Witness ==
    /\ rem_last.called
    /\ rem_last.cmd_id = "toggle"
    /\ rem_last.before = "OFF"
    /\ rem_state = "ON"

IsLaunch(command) == StartsWith(command, LaunchPrefix)

\* C28: every command the remote entity can emit is accepted by send_command:
\* the commands of the button mapping and of the navigation page are simple
\* commands, a simple command that is no launch is one of the 18 key names, a
\* hard-coded LAUNCH_ command is one the top-apps page derives from the
\* registry, and so each of them, sent to a device holding a client, is
\* dispatched to a transport call
C28_EmittedCommandsAccepted ==
    /\ ButtonCommands \cup NavigationPageCommands \subseteq SimpleCommands
    /\ \A c \in SimpleCommands : ~IsLaunch(c) => Lower(c) \in NavCommands \cup MediaCommands
    /\ Cardinality(NavCommands \cup MediaCommands) = 18
    /\ (CommandSent /\ LastCommand \in SimpleCommands /\ IsLaunch(LastCommand)) =>
        /\ LastCommand \in TopAppsPageCommands
        /\ rem_last.calls # <<>>

=============================================================================
